---- MODULE Spec2Model ----
(***************************************************************************)
(* knowhere::ThreadPool (include/knowhere/comp/thread_pool.h).             *)
(*                                                                         *)
(* The model covers the pool object (constructor, size, SetNumThreads),    *)
(* the two process-wide pools build_pool_ / search_pool_ with their        *)
(* double-checked initialisation, and ScopedOmpSetter.  Registry calls are *)
(* split at every access to shared state, so that calls of different       *)
(* threads interleave as they do in the program.                           *)
(*                                                                         *)
(* build_pool_ and search_pool_ are plain std::shared_ptr objects that are *)
(* written under a mutex and read without it.  A read that nothing orders  *)
(* after the write is a data race; the model lets such a read return       *)
(* either nullptr or the published pointer.  view[t][c] records that       *)
(* thread t has synchronised with (or already observed) the publication of *)
(* class c, after which its reads return the pointer.                      *)
(***************************************************************************)
EXTENDS Integers, Sequences, FiniteSets

(* ---- bounds ---- *)
\* Largest thread count (and nested-runtime budget) in the runs with
\* concurrent callers and in the runs with guards.
MaxC == 2
\* Largest thread count passed by a single caller of the registry.
MaxN == 3
\* Deepest nesting of ScopedOmpSetter objects.
MaxGuards == 2
\* Largest batch of handles passed to WaitAllSuccess.
MaxBatch == 3
\* Number of tasks submitted to a pool.
MaxTasks == 18
\* Number of SetNumThreads calls made on a pool that runs tasks.
MaxResizes == 2
\* Number of tasks submitted where progress is checked.
MaxFair == 3
\* Largest thread count passed to the registry where progress is checked.
MaxL == 1

(* ---- program constants ---- *)
kTaskQueueFactor == 16

Threads == {1, 2}
Submitters == {1, 2}
Workers == 1..MaxC
Tasks == 1..MaxTasks
Classes == {"build", "search"}
Null == 0
NoThread == 0

VARIABLES
    env,        \* the run: which threads of control exist, which workload
                \* classes they use, the largest thread count they pass
    pools,      \* per class: every ThreadPool ever constructed, in order
    pool_ptr,   \* per class: the static shared_ptr (Null or index in pools)
    mutex,      \* per class: owner of the static std::mutex, or NoThread
    view,       \* view[t][c]: t is ordered after the publication of c
    pc,         \* per thread: position inside the current registry call
    op,         \* per thread: the registry call in progress
    cls,        \* per thread: workload class of the call
    num_threads,\* per thread: the call's num_threads argument
    ret,        \* per thread: value returned by the last GetGlobal*ThreadPool
    omp,        \* omp_get_max_threads()
    guards,     \* live ScopedOmpSetter objects of the guard thread, top first
    ctor_arg,   \* argument of the ScopedOmpSetter constructor, when the last
                \* step on the guards was a construction (else 0)
    payload,    \* WaitAllSuccess<T>: T, "Unit" or "Status"
    futures,    \* the batch passed to WaitAllSuccess: per handle "pending",
                \* the value it completed with, or the exception it holds
    allFuts,    \* WaitAllSuccess: the results collectAll(...).get() returned
    wpc,        \* position of the WaitAllSuccess call
    wi,         \* WaitAllSuccess: index of the result the loop looks at next
    wresult,    \* what WaitAllSuccess returned or threw
    xpool,      \* a ThreadPool a caller constructed and submits tasks to
    xinit,      \* the thread count xpool was constructed with
    queue,      \* xpool's task queue, oldest task first
    wstate,     \* per worker thread of xpool: "stopped", "idle", "running"
    wtask,      \* per worker thread: the task it runs (0: none)
    spc,        \* per submitter: position inside push
    budget,     \* number of tasks the callers submit in this run
    submitted,  \* number of tasks added to the queue so far; they are numbered
    runs,       \* per task: how many times a worker started it
    done,       \* tasks that ran to completion
    resizes     \* number of SetNumThreads calls made on xpool so far

waitVars == <<payload, futures, allFuts, wpc, wi, wresult>>

execVars == <<xpool, xinit, queue, wstate, wtask, spc, budget, submitted, runs,
              done, resizes>>

vars == <<env, pools, pool_ptr, mutex, view, pc, op, cls, num_threads,
          ret, omp, guards, ctor_arg, waitVars, execVars>>

(* ---- the pool object ---- *)

\* ThreadPool::ThreadPool with a queue of kTaskQueueFactor slots whatever
\* the thread count.
ThreadPool_FixedQueue(n) ==
    [numThreads |-> n, capacity |-> kTaskQueueFactor]

\* ThreadPool::ThreadPool: num_threads workers, a queue of
\* num_threads * kTaskQueueFactor slots.
ThreadPool(n) ==
    [numThreads |-> n, capacity |-> n * kTaskQueueFactor]

\* ThreadPool::size reporting the thread count the pool was constructed with.
size_Initial(p) == p.capacity \div kTaskQueueFactor

\* ThreadPool::size
size(p) == p.numThreads

\* ThreadPool::SetNumThreads without the check for 0.
SetNumThreads_NoZeroCheck(p, n) == [p EXCEPT !.numThreads = n]

\* ThreadPool::SetNumThreads
SetNumThreads(p, n) ==
    IF n = 0 THEN p ELSE [p EXCEPT !.numThreads = n]

\* std::thread::hardware_concurrency(): the number of hardware thread
\* contexts, or 0 when the value is not computable.
hardware_concurrency == 0..env.max

(* ---- the static pool pointers ---- *)

build_pool_ == pool_ptr["build"]
search_pool_ == pool_ptr["search"]
build_pool_mutex_ == mutex["build"]
search_pool_mutex_ == mutex["search"]

\* The pool a non-null pointer of class c designates.
Deref(c, p) == pools[c][p]

\* The pool of class c (defined while the pointer is non-null).
Pool(c) == Deref(c, pool_ptr[c])

\* Values an unlocked read of the class-c pointer by thread t can return.
ReadPtr(t, c) ==
    IF pool_ptr[c] = Null \/ view[t][c]
    THEN {pool_ptr[c]}
    ELSE {Null, pool_ptr[c]}

\* The view of t after a read of class c returned p.
Observed(t, c, p) ==
    IF p = Null THEN view ELSE [view EXCEPT ![t][c] = TRUE]

\* The view of t after it acquired the class-c mutex.
Synchronised(t, c) ==
    IF pool_ptr[c] = Null THEN view ELSE [view EXCEPT ![t][c] = TRUE]

(* ---- initial state ---- *)

InitCommon ==
    /\ pools = [c \in Classes |-> <<>>]
    /\ pool_ptr = [c \in Classes |-> Null]
    /\ mutex = [c \in Classes |-> NoThread]
    /\ view = [t \in Threads |-> [c \in Classes |-> FALSE]]
    /\ pc = [t \in Threads |-> "idle"]
    /\ op = [t \in Threads |-> "none"]
    /\ cls = [t \in Threads |-> "build"]
    /\ num_threads = [t \in Threads |-> 0]
    /\ ret = [t \in Threads |-> Null]
    /\ guards = <<>>
    /\ ctor_arg = 0

\* No WaitAllSuccess call is made.
NoBatch ==
    /\ payload = "Unit"
    /\ futures = <<>>
    /\ allFuts = <<>>
    /\ wpc = "none"
    /\ wi = 0
    /\ wresult = "none"

\* No pool is constructed outside the registry.
NoExecutor ==
    /\ xpool = ThreadPool(1)
    /\ xinit = 1
    /\ queue = <<>>
    /\ wstate = [w \in Workers |-> "stopped"]
    /\ wtask = [w \in Workers |-> 0]
    /\ spc = [u \in Submitters |-> "idle"]
    /\ budget = 0
    /\ submitted = 0
    /\ runs = [k \in Tasks |-> 0]
    /\ done = {}
    /\ resizes = 0

\* Two threads of control calling the registry concurrently.
Init ==
    /\ InitCommon
    /\ NoBatch
    /\ NoExecutor
    /\ env = [threads |-> Threads, classes |-> Classes, max |-> MaxC]
    /\ omp = 1

\* Two threads of control calling the registry, for the properties of
\* progress.
FairInit ==
    /\ InitCommon
    /\ NoBatch
    /\ NoExecutor
    /\ env = [threads |-> Threads, classes |-> Classes, max |-> MaxL]
    /\ omp = 1

\* One thread of control calling the registry.
SeqInit ==
    /\ InitCommon
    /\ NoBatch
    /\ NoExecutor
    /\ env = [threads |-> {1}, classes |-> Classes, max |-> MaxN]
    /\ omp = 1

\* One thread of control that scopes ScopedOmpSetter objects around its
\* work and uses the build pool, the only pool ScopedOmpSetter reads.
GuardInit ==
    /\ InitCommon
    /\ NoBatch
    /\ NoExecutor
    /\ env = [threads |-> {1}, classes |-> {"build"}, max |-> MaxC]
    /\ omp \in 1..MaxC

(* ---- registry calls ---- *)

\* A thread of control enters InitGlobalBuildThreadPool /
\* InitGlobalSearchThreadPool with argument n.
Call_InitGlobalThreadPool(t, c, n) ==
    /\ t \in env.threads /\ c \in env.classes /\ n \in 0..env.max
    /\ pc[t] = "idle"
    /\ op' = [op EXCEPT ![t] = "init"]
    /\ cls' = [cls EXCEPT ![t] = c]
    /\ num_threads' = [num_threads EXCEPT ![t] = n]
    /\ pc' = [pc EXCEPT ![t] = "init_entry"]
    /\ UNCHANGED <<env, pools, pool_ptr, mutex, view, ret, omp, guards>>

\* A thread of control enters SetGlobalBuildThreadPoolSize /
\* SetGlobalSearchThreadPoolSize with argument n.
Call_SetGlobalThreadPoolSize(t, c, n) ==
    /\ t \in env.threads /\ c \in env.classes /\ n \in 0..env.max
    /\ pc[t] = "idle"
    /\ op' = [op EXCEPT ![t] = "set"]
    /\ cls' = [cls EXCEPT ![t] = c]
    /\ num_threads' = [num_threads EXCEPT ![t] = n]
    /\ pc' = [pc EXCEPT ![t] = "set_entry"]
    /\ UNCHANGED <<env, pools, pool_ptr, mutex, view, ret, omp, guards>>

\* A thread of control enters GetGlobalBuildThreadPool /
\* GetGlobalSearchThreadPool.
Call_GetGlobalThreadPool(t, c) ==
    /\ t \in env.threads /\ c \in env.classes
    /\ pc[t] = "idle"
    /\ op' = [op EXCEPT ![t] = "get"]
    /\ cls' = [cls EXCEPT ![t] = c]
    /\ pc' = [pc EXCEPT ![t] = "get_entry"]
    /\ UNCHANGED <<env, pools, pool_ptr, mutex, view, num_threads, ret,
                   omp, guards>>

\* Where control goes when InitGlobal*ThreadPool returns to its caller:
\* GetGlobal*ThreadPool continues with its return statement, the other two
\* callers are finished.
AfterInit(t) == IF op[t] = "get" THEN "get_return" ELSE "done"

\* InitGlobalThreadPool_Check that resizes the pool it finds instead of
\* only logging its size.
InitGlobalThreadPool_Check_Resizes(t) ==
    /\ pc[t] = "init_entry"
    /\ IF num_threads[t] <= 0
       THEN /\ pc' = [pc EXCEPT ![t] = AfterInit(t)]
            /\ UNCHANGED <<view, pools>>
       ELSE \E p \in ReadPtr(t, cls[t]) :
            /\ view' = Observed(t, cls[t], p)
            /\ pools' = IF p = Null THEN pools
                        ELSE [pools EXCEPT ![cls[t]][p] =
                                 SetNumThreads(@, num_threads[t])]
            /\ pc' = [pc EXCEPT ![t] =
                        IF p = Null THEN "init_lock" ELSE AfterInit(t)]
    /\ UNCHANGED <<env, pool_ptr, mutex, op, cls, num_threads, ret, omp,
                   guards>>

\* InitGlobal*ThreadPool up to the lock: the argument check and the
\* unlocked check of the pointer (with the "already initialized" log).
InitGlobalThreadPool_Check(t) ==
    /\ pc[t] = "init_entry"
    /\ IF num_threads[t] <= 0
       THEN /\ pc' = [pc EXCEPT ![t] = AfterInit(t)]
            /\ view' = view
       ELSE \E p \in ReadPtr(t, cls[t]) :
            /\ view' = Observed(t, cls[t], p)
            /\ pc' = [pc EXCEPT ![t] =
                        IF p = Null THEN "init_lock" ELSE AfterInit(t)]
    /\ UNCHANGED <<env, pools, pool_ptr, mutex, op, cls, num_threads,
                   ret, omp, guards>>

\* std::lock_guard<std::mutex> lock(..._pool_mutex_): blocks while another
\* thread owns the mutex.
InitGlobalThreadPool_Lock(t) ==
    /\ pc[t] = "init_lock"
    /\ mutex[cls[t]] = NoThread
    /\ mutex' = [mutex EXCEPT ![cls[t]] = t]
    /\ view' = Synchronised(t, cls[t])
    /\ pc' = [pc EXCEPT ![t] = "init_locked"]
    /\ UNCHANGED <<env, pools, pool_ptr, op, cls, num_threads, ret,
                   omp, guards>>

\* InitGlobalThreadPool_Create without the check under the lock: every
\* caller that found the pointer null outside the lock constructs a pool.
InitGlobalThreadPool_Create_NoRecheck(t) ==
    /\ pc[t] = "init_locked"
    /\ pools' = [pools EXCEPT ![cls[t]] =
                    Append(@, ThreadPool(num_threads[t]))]
    /\ pool_ptr' = [pool_ptr EXCEPT ![cls[t]] = Len(pools[cls[t]]) + 1]
    /\ view' = [view EXCEPT ![t][cls[t]] = TRUE]
    /\ pc' = [pc EXCEPT ![t] = "init_unlock"]
    /\ UNCHANGED <<env, mutex, op, cls, num_threads, ret, omp, guards>>

\* The check under the lock and, when the pointer is still null, the
\* construction and publication of the pool.
InitGlobalThreadPool_Create(t) ==
    /\ pc[t] = "init_locked"
    /\ IF pool_ptr[cls[t]] = Null
       THEN /\ pools' = [pools EXCEPT ![cls[t]] =
                            Append(@, ThreadPool(num_threads[t]))]
            /\ pool_ptr' = [pool_ptr EXCEPT ![cls[t]] = Len(pools[cls[t]]) + 1]
            /\ view' = [view EXCEPT ![t][cls[t]] = TRUE]
       ELSE UNCHANGED <<pools, pool_ptr, view>>
    /\ pc' = [pc EXCEPT ![t] = "init_unlock"]
    /\ UNCHANGED <<env, mutex, op, cls, num_threads, ret, omp, guards>>

\* InitGlobal*ThreadPool that locks the mutex by hand and returns without
\* unlocking it.
InitGlobalThreadPool_Unlock_KeepsLock(t) ==
    /\ pc[t] = "init_unlock"
    /\ pc' = [pc EXCEPT ![t] = AfterInit(t)]
    /\ UNCHANGED <<env, pools, pool_ptr, mutex, view, op, cls, num_threads,
                   ret, omp, guards>>

\* The lock_guard goes out of scope and InitGlobal*ThreadPool returns.
InitGlobalThreadPool_Unlock(t) ==
    /\ pc[t] = "init_unlock"
    /\ mutex' = [mutex EXCEPT ![cls[t]] = NoThread]
    /\ pc' = [pc EXCEPT ![t] = AfterInit(t)]
    /\ UNCHANGED <<env, pools, pool_ptr, view, op, cls, num_threads,
                   ret, omp, guards>>

\* SetGlobalThreadPoolSize_Check that returns when it finds no pool
\* instead of calling InitGlobal*ThreadPool.
SetGlobalThreadPoolSize_Check_NoInit(t) ==
    /\ pc[t] = "set_entry"
    /\ \E p \in ReadPtr(t, cls[t]) :
        /\ view' = Observed(t, cls[t], p)
        /\ pc' = [pc EXCEPT ![t] =
                    IF p = Null THEN "done" ELSE "set_resize"]
    /\ UNCHANGED <<env, pools, pool_ptr, mutex, op, cls, num_threads,
                   ret, omp, guards>>

\* SetGlobal*ThreadPoolSize: the unlocked check of the pointer; a null
\* pointer hands the call to InitGlobal*ThreadPool(num_threads).
SetGlobalThreadPoolSize_Check(t) ==
    /\ pc[t] = "set_entry"
    /\ \E p \in ReadPtr(t, cls[t]) :
        /\ view' = Observed(t, cls[t], p)
        /\ pc' = [pc EXCEPT ![t] =
                    IF p = Null THEN "init_entry" ELSE "set_resize"]
    /\ UNCHANGED <<env, pools, pool_ptr, mutex, op, cls, num_threads,
                   ret, omp, guards>>

\* SetGlobalThreadPoolSize_Resize that replaces the pool by a new one of
\* the requested size instead of resizing it in place.
SetGlobalThreadPoolSize_Resize_Replaces(t) ==
    /\ pc[t] = "set_resize"
    /\ IF num_threads[t] = 0
       THEN UNCHANGED <<pools, pool_ptr>>
       ELSE /\ pools' = [pools EXCEPT ![cls[t]] =
                            Append(@, ThreadPool(num_threads[t]))]
            /\ pool_ptr' = [pool_ptr EXCEPT ![cls[t]] = Len(pools[cls[t]]) + 1]
    /\ pc' = [pc EXCEPT ![t] = "done"]
    /\ UNCHANGED <<env, mutex, view, op, cls, num_threads, ret, omp, guards>>

\* SetGlobal*ThreadPoolSize, pointer seen non-null:
\* ..._pool_->SetNumThreads(num_threads), then the log and the return.
SetGlobalThreadPoolSize_Resize(t) ==
    /\ pc[t] = "set_resize"
    /\ pools' = [pools EXCEPT ![cls[t]][pool_ptr[cls[t]]] =
                    SetNumThreads(@, num_threads[t])]
    /\ pc' = [pc EXCEPT ![t] = "done"]
    /\ UNCHANGED <<env, pool_ptr, mutex, view, op, cls, num_threads,
                   ret, omp, guards>>

\* GetGlobal*ThreadPool: the unlocked check of the pointer; a null pointer
\* calls InitGlobal*ThreadPool(std::thread::hardware_concurrency()).
GetGlobalThreadPool_Check(t) ==
    /\ pc[t] = "get_entry"
    /\ \E p \in ReadPtr(t, cls[t]) :
        /\ view' = Observed(t, cls[t], p)
        /\ IF p = Null
           THEN /\ \E hw \in hardware_concurrency :
                    num_threads' = [num_threads EXCEPT ![t] = hw]
                /\ pc' = [pc EXCEPT ![t] = "init_entry"]
           ELSE /\ num_threads' = num_threads
                /\ pc' = [pc EXCEPT ![t] = "get_return"]
    /\ UNCHANGED <<env, pools, pool_ptr, mutex, op, cls, ret, omp,
                   guards>>

\* GetGlobal*ThreadPool: return ..._pool_ (a copy of the pointer).
GetGlobalThreadPool_Return(t) ==
    /\ pc[t] = "get_return"
    /\ \E p \in ReadPtr(t, cls[t]) :
        /\ view' = Observed(t, cls[t], p)
        /\ ret' = [ret EXCEPT ![t] = p]
    /\ pc' = [pc EXCEPT ![t] = "done"]
    /\ UNCHANGED <<env, pools, pool_ptr, mutex, op, cls, num_threads,
                   omp, guards>>

\* The caller takes the result and is free to make its next call.
Return(t) ==
    /\ pc[t] = "done"
    /\ pc' = [pc EXCEPT ![t] = "idle"]
    /\ op' = [op EXCEPT ![t] = "none"]
    /\ cls' = [cls EXCEPT ![t] = "build"]
    /\ num_threads' = [num_threads EXCEPT ![t] = 0]
    /\ ret' = [ret EXCEPT ![t] = Null]
    /\ UNCHANGED <<env, pools, pool_ptr, mutex, view, omp, guards>>

(* ---- ScopedOmpSetter ---- *)

\* omp_get_max_threads()
omp_get_max_threads == omp

\* omp_set_num_threads(k) called by the code a guard scopes.
omp_set_num_threads(t, k) ==
    /\ t \in env.threads /\ pc[t] = "idle"
    /\ k \in 1..env.max
    /\ omp' = k
    /\ UNCHANGED <<env, pools, pool_ptr, mutex, view, pc, op, cls,
                   num_threads, ret, guards, ctor_arg, waitVars, execVars>>

\* What a guard constructed now remembers besides omp_before, which is all
\* the program stores: the budget in effect at construction (entry), the
\* build pool's size at construction (pool, 0 when there is no build pool).
AtEntry ==
    [entry |-> omp,
     pool |-> IF build_pool_ = Null THEN 0 ELSE size(Pool("build"))]

\* ScopedOmpSetter::ScopedOmpSetter that always records the runtime's own
\* setting, whether or not the build pool exists.
ScopedOmpSetter_ctor_IgnoresPool(t, n) ==
    /\ t \in env.threads /\ pc[t] = "idle"
    /\ n \in -1..env.max
    /\ Len(guards) < MaxGuards
    /\ LET omp_before == omp_get_max_threads
       IN  /\ omp' = IF n <= 0 THEN omp_before ELSE n
           /\ guards' = <<[omp_before |-> omp_before,
                           entry |-> AtEntry.entry,
                           pool |-> AtEntry.pool]>> \o guards
    /\ ctor_arg' = n
    /\ UNCHANGED <<env, pools, pool_ptr, mutex, view, pc, op, cls,
                   num_threads, ret, waitVars, execVars>>

\* ScopedOmpSetter::ScopedOmpSetter that takes only a negative argument as
\* "use the default" and passes 0 on to the runtime.
ScopedOmpSetter_ctor_ZeroNotDefault(t, n) ==
    /\ t \in env.threads /\ pc[t] = "idle"
    /\ n \in -1..env.max
    /\ Len(guards) < MaxGuards
    /\ \E p \in ReadPtr(t, "build") :
        LET omp_before == IF p = Null
                          THEN omp_get_max_threads
                          ELSE size(Deref("build", p))
        IN  /\ view' = Observed(t, "build", p)
            /\ omp' = IF n < 0 THEN omp_before ELSE n
            /\ guards' = <<[omp_before |-> omp_before,
                            entry |-> AtEntry.entry,
                            pool |-> AtEntry.pool]>> \o guards
    /\ ctor_arg' = n
    /\ UNCHANGED <<env, pools, pool_ptr, mutex, pc, op, cls, num_threads, ret,
                   waitVars, execVars>>

\* ScopedOmpSetter::ScopedOmpSetter(n).
ScopedOmpSetter_ctor(t, n) ==
    /\ t \in env.threads /\ pc[t] = "idle"
    /\ n \in -1..env.max
    /\ Len(guards) < MaxGuards
    /\ \E p \in ReadPtr(t, "build") :
        LET omp_before == IF p = Null
                          THEN omp_get_max_threads
                          ELSE size(Deref("build", p))
        IN  /\ view' = Observed(t, "build", p)
            /\ omp' = IF n <= 0 THEN omp_before ELSE n
            /\ guards' = <<[omp_before |-> omp_before,
                            entry |-> AtEntry.entry,
                            pool |-> AtEntry.pool]>> \o guards
    /\ ctor_arg' = n
    /\ UNCHANGED <<env, pools, pool_ptr, mutex, pc, op, cls, num_threads, ret,
                   waitVars, execVars>>

\* ScopedOmpSetter::~ScopedOmpSetter that leaves the budget as it is.
ScopedOmpSetter_dtor_NoRestore(t) ==
    /\ t \in env.threads /\ pc[t] = "idle"
    /\ guards # <<>>
    /\ guards' = Tail(guards)
    /\ ctor_arg' = 0
    /\ UNCHANGED <<env, pools, pool_ptr, mutex, view, pc, op, cls,
                   num_threads, ret, omp, waitVars, execVars>>

\* ScopedOmpSetter::~ScopedOmpSetter of the innermost live guard.
ScopedOmpSetter_dtor(t) ==
    /\ t \in env.threads /\ pc[t] = "idle"
    /\ guards # <<>>
    /\ omp' = Head(guards).omp_before
    /\ guards' = Tail(guards)
    /\ ctor_arg' = 0
    /\ UNCHANGED <<env, pools, pool_ptr, mutex, view, pc, op, cls,
                   num_threads, ret, waitVars, execVars>>

(* ---- WaitAllSuccess ---- *)

\* Status::success
Success == "success"
\* Status values other than Status::success
NonSuccess == {"status_a", "status_b"}
\* The value of a folly::Future<folly::Unit> that completed without error
UnitValue == "unit"
\* Exceptions a future can hold
Exceptions == {"exc_x", "exc_y"}
\* A future that has not completed
Pending == "pending"

\* What a Future<T> can complete with.
Outcomes(T) ==
    Exceptions \cup (IF T = "Unit" THEN {UnitValue}
                                  ELSE {Success} \cup NonSuccess)

\* WaitAllSuccess is called on a batch of futures of tasks submitted before,
\* none of which is known to have completed.
WaitInit ==
    /\ InitCommon
    /\ NoExecutor
    /\ env = [threads |-> {}, classes |-> {}, max |-> 0]
    /\ omp = 1
    /\ payload \in {"Unit", "Status"}
    /\ \E n \in 0..MaxBatch : futures = [i \in 1..n |-> Pending]
    /\ allFuts = <<>>
    /\ wpc = "collectAll"
    /\ wi = 0
    /\ wresult = "none"

\* What a step on the batch leaves alone.
WaitFrame ==
    UNCHANGED <<env, pools, pool_ptr, mutex, view, pc, op, cls, num_threads,
                ret, omp, guards, ctor_arg, execVars>>

\* The task behind handle i finishes: the handle holds a value or an
\* exception from now on.
Complete(i, o) ==
    /\ i \in DOMAIN futures
    /\ futures[i] = Pending
    /\ o \in Outcomes(payload)
    /\ futures' = [futures EXCEPT ![i] = o]
    /\ UNCHANGED <<payload, allFuts, wpc, wi, wresult>>
    /\ WaitFrame

\* collectAll that hands over the results as soon as one handle holds an
\* exception, without waiting for the others.
WaitAllSuccess_collectAll_FailFast ==
    /\ wpc = "collectAll"
    /\ \/ \A i \in DOMAIN futures : futures[i] # Pending
       \/ \E i \in DOMAIN futures : futures[i] \in Exceptions
    /\ allFuts' = futures
    /\ wi' = 1
    /\ wpc' = "loop"
    /\ UNCHANGED <<payload, futures, wresult>>
    /\ WaitFrame

\* folly::collectAll(futures.begin(), futures.end()).get(): blocks until
\* every future of the batch has completed, then yields their results in
\* the order of the batch.
WaitAllSuccess_collectAll ==
    /\ wpc = "collectAll"
    /\ \A i \in DOMAIN futures : futures[i] # Pending
    /\ allFuts' = futures
    /\ wi' = 1
    /\ wpc' = "loop"
    /\ UNCHANGED <<payload, futures, wresult>>
    /\ WaitFrame

\* The loop of WaitAllSuccess that goes on after a non-success status and
\* returns the last one it saw.
WaitAllSuccess_loop_KeepsLast ==
    /\ wpc = "loop"
    /\ IF wi > Len(allFuts)
       THEN /\ wpc' = "returned"
            /\ wresult' = IF wresult = "none" THEN Success ELSE wresult
            /\ wi' = wi
       ELSE LET result == allFuts[wi]
            IN  IF result \in Exceptions
                THEN /\ wpc' = "thrown"
                     /\ wresult' = result
                     /\ wi' = wi
                ELSE /\ wpc' = "loop"
                     /\ wresult' = IF payload # "Unit" /\ result # Success
                                   THEN result ELSE wresult
                     /\ wi' = wi + 1
    /\ UNCHANGED <<payload, futures, allFuts>>
    /\ WaitFrame

\* The loop of WaitAllSuccess that compares the value with Status::success
\* whatever the payload type.
WaitAllSuccess_loop_NoConstexpr ==
    /\ wpc = "loop"
    /\ IF wi > Len(allFuts)
       THEN /\ wpc' = "returned"
            /\ wresult' = Success
            /\ wi' = wi
       ELSE LET result == allFuts[wi]
            IN  IF result \in Exceptions
                THEN /\ wpc' = "thrown"
                     /\ wresult' = result
                     /\ wi' = wi
                ELSE IF result # Success
                THEN /\ wpc' = "returned"
                     /\ wresult' = result
                     /\ wi' = wi
                ELSE /\ wpc' = "loop"
                     /\ wresult' = wresult
                     /\ wi' = wi + 1
    /\ UNCHANGED <<payload, futures, allFuts>>
    /\ WaitFrame

\* One pass of the loop over allFuts (result.throwUnlessValue(), then the
\* comparison with Status::success when T is not folly::Unit), or the
\* return of Status::success after the loop.
WaitAllSuccess_loop ==
    /\ wpc = "loop"
    /\ IF wi > Len(allFuts)
       THEN /\ wpc' = "returned"
            /\ wresult' = Success
            /\ wi' = wi
       ELSE LET result == allFuts[wi]
            IN  IF result \in Exceptions
                THEN /\ wpc' = "thrown"
                     /\ wresult' = result
                     /\ wi' = wi
                ELSE IF payload # "Unit" /\ result # Success
                THEN /\ wpc' = "returned"
                     /\ wresult' = result
                     /\ wi' = wi
                ELSE /\ wpc' = "loop"
                     /\ wresult' = wresult
                     /\ wi' = wi + 1
    /\ UNCHANGED <<payload, futures, allFuts>>
    /\ WaitFrame

(* ---- a pool running tasks ---- *)

\* A caller has constructed a pool with n threads: n workers wait on the
\* empty queue.
NewPool ==
    /\ InitCommon
    /\ NoBatch
    /\ env = [threads |-> {}, classes |-> {}, max |-> 0]
    /\ omp = 1
    /\ \E n \in 1..MaxC :
        /\ xpool = ThreadPool(n)
        /\ xinit = n
        /\ wstate = [w \in Workers |-> IF w <= n THEN "idle" ELSE "stopped"]
    /\ queue = <<>>
    /\ wtask = [w \in Workers |-> 0]
    /\ spc = [u \in Submitters |-> "idle"]
    /\ submitted = 0
    /\ runs = [k \in Tasks |-> 0]
    /\ done = {}
    /\ resizes = 0

\* Enough tasks to fill the queue.
ExecInit == NewPool /\ budget = MaxTasks

\* A few tasks, for the properties of progress.
FairExecInit == NewPool /\ budget = MaxFair

\* What a step on the pool leaves alone.
ExecFrame ==
    UNCHANGED <<env, pools, pool_ptr, mutex, view, pc, op, cls, num_threads,
                ret, omp, guards, ctor_arg, waitVars>>

\* The worker threads of the pool that exist.
Alive == {w \in Workers : wstate[w] # "stopped"}

\* The submitters inside push, their task not yet in the queue.
Adding == {u \in Submitters : spc[u] = "add"}

\* ThreadPool::push is called with a task.
push_call(u) ==
    /\ spc[u] = "idle"
    /\ submitted + Cardinality(Adding) < budget
    /\ spc' = [spc EXCEPT ![u] = "add"]
    /\ UNCHANGED <<xpool, xinit, queue, wstate, wtask, budget, submitted,
                   runs, done, resizes>>
    /\ ExecFrame

\* ThreadPool::push that hands its continuation to the executor twice.
push_add_Twice(u) ==
    /\ spc[u] = "add"
    /\ Len(queue) < xpool.capacity
    /\ submitted' = submitted + 1
    /\ queue' = queue \o <<submitted', submitted'>>
    /\ spc' = [spc EXCEPT ![u] = "idle"]
    /\ UNCHANGED <<xpool, xinit, wstate, wtask, budget, runs, done, resizes>>
    /\ ExecFrame

\* ThreadPool::push: makeSemiFuture().via(&pool_).then(...) adds the task to
\* the queue, waiting while the queue is full
\* (QueueBehaviorIfFull::BLOCK), and returns the future.  The task gets the
\* next number when it enters the queue.
push_add(u) ==
    /\ spc[u] = "add"
    /\ Len(queue) < xpool.capacity
    /\ submitted' = submitted + 1
    /\ queue' = Append(queue, submitted')
    /\ spc' = [spc EXCEPT ![u] = "idle"]
    /\ UNCHANGED <<xpool, xinit, wstate, wtask, budget, runs, done, resizes>>
    /\ ExecFrame

\* A worker thread takes the oldest task of the queue and starts it.
Worker_take(w) ==
    /\ wstate[w] = "idle"
    /\ queue # <<>>
    /\ wstate' = [wstate EXCEPT ![w] = "running"]
    /\ wtask' = [wtask EXCEPT ![w] = Head(queue)]
    /\ runs' = [runs EXCEPT ![Head(queue)] = @ + 1]
    /\ queue' = Tail(queue)
    /\ UNCHANGED <<xpool, xinit, spc, budget, submitted, done, resizes>>
    /\ ExecFrame

\* A worker thread's task runs to completion.
Worker_finish(w) ==
    /\ wstate[w] = "running"
    /\ done' = done \cup {wtask[w]}
    /\ wstate' = [wstate EXCEPT ![w] = "idle"]
    /\ wtask' = [wtask EXCEPT ![w] = 0]
    /\ UNCHANGED <<xpool, xinit, queue, spc, budget, submitted, runs, resizes>>
    /\ ExecFrame

\* A worker thread with no task exits when the pool has more threads than
\* its configured count.
Worker_exit(w) ==
    /\ wstate[w] = "idle"
    /\ Cardinality(Alive) > size(xpool)
    /\ wstate' = [wstate EXCEPT ![w] = "stopped"]
    /\ UNCHANGED <<xpool, xinit, queue, wtask, spc, budget, submitted, runs,
                   done, resizes>>
    /\ ExecFrame

\* The worker threads after the configured count became n: threads are
\* added up to n; none is stopped here.
Spawned(n) ==
    LET missing == n - Cardinality(Alive)
        stopped == {w \in Workers : wstate[w] = "stopped"}
        new == {w \in stopped :
                   Cardinality({v \in stopped : v < w}) < missing}
    IN  [w \in Workers |-> IF w \in new THEN "idle" ELSE wstate[w]]

\* ThreadPool::SetNumThreads(m) on the pool that runs tasks.
Exec_SetNumThreads(m) ==
    /\ resizes < MaxResizes
    /\ m \in 0..MaxC
    /\ resizes' = resizes + 1
    /\ xpool' = SetNumThreads(xpool, m)
    /\ wstate' = Spawned(size(xpool'))
    /\ UNCHANGED <<xinit, queue, wtask, spc, budget, submitted, runs, done>>
    /\ ExecFrame

(* ---- specifications ---- *)

\* What a step of a registry call leaves alone.
RegistryFrame == UNCHANGED <<ctor_arg, waitVars, execVars>>

Registry ==
    \/ \E t \in Threads, c \in Classes, n \in 0..MaxN :
           Call_InitGlobalThreadPool(t, c, n) /\ RegistryFrame
    \/ \E t \in Threads, c \in Classes, n \in 0..MaxN :
           Call_SetGlobalThreadPoolSize(t, c, n) /\ RegistryFrame
    \/ \E t \in Threads, c \in Classes :
           Call_GetGlobalThreadPool(t, c) /\ RegistryFrame
    \/ \E t \in Threads :
           InitGlobalThreadPool_Check(t) /\ RegistryFrame
    \/ \E t \in Threads :
           InitGlobalThreadPool_Lock(t) /\ RegistryFrame
    \/ \E t \in Threads :
           InitGlobalThreadPool_Create(t) /\ RegistryFrame
    \/ \E t \in Threads :
           InitGlobalThreadPool_Unlock(t) /\ RegistryFrame
    \/ \E t \in Threads :
           SetGlobalThreadPoolSize_Check(t) /\ RegistryFrame
    \/ \E t \in Threads :
           SetGlobalThreadPoolSize_Resize(t) /\ RegistryFrame
    \/ \E t \in Threads :
           GetGlobalThreadPool_Check(t) /\ RegistryFrame
    \/ \E t \in Threads :
           GetGlobalThreadPool_Return(t) /\ RegistryFrame
    \/ \E t \in Threads :
           Return(t) /\ RegistryFrame

Next == Registry

Spec == Init /\ [][Next]_vars

\* The steps of a registry call thread t is inside of.
ThreadStep(t) ==
    /\ \/ InitGlobalThreadPool_Check(t)
       \/ InitGlobalThreadPool_Lock(t)
       \/ InitGlobalThreadPool_Create(t)
       \/ InitGlobalThreadPool_Unlock(t)
       \/ SetGlobalThreadPoolSize_Check(t)
       \/ SetGlobalThreadPoolSize_Resize(t)
       \/ GetGlobalThreadPool_Check(t)
       \/ GetGlobalThreadPool_Return(t)
    /\ RegistryFrame

\* A thread that can take the next step of its call eventually does.
Fairness == \A t \in Threads : WF_vars(ThreadStep(t))

FairSpec == FairInit /\ [][Next]_vars /\ Fairness

SeqSpec == SeqInit /\ [][Next]_vars

GuardNext ==
    \/ Registry
    \/ \E t \in Threads, k \in 1..MaxN : omp_set_num_threads(t, k)
    \/ \E t \in Threads, n \in -1..MaxN : ScopedOmpSetter_ctor(t, n)
    \/ \E t \in Threads : ScopedOmpSetter_dtor(t)

GuardSpec == GuardInit /\ [][GuardNext]_vars

WaitNext ==
    \/ \E i \in 1..MaxBatch, o \in Outcomes("Unit") \cup Outcomes("Status") :
           Complete(i, o)
    \/ WaitAllSuccess_collectAll
    \/ WaitAllSuccess_loop

WaitSpec == WaitInit /\ [][WaitNext]_vars

ExecNext ==
    \/ \E u \in Submitters : push_call(u)
    \/ \E u \in Submitters : push_add(u)
    \/ \E w \in Workers : Worker_take(w)
    \/ \E w \in Workers : Worker_finish(w)
    \/ \E w \in Workers : Worker_exit(w)
    \/ \E m \in 0..MaxC : Exec_SetNumThreads(m)

ExecSpec == ExecInit /\ [][ExecNext]_vars

\* Worker threads that can take or finish a task eventually do.
ExecFairness ==
    \A w \in Workers :
        WF_vars(Worker_take(w)) /\ WF_vars(Worker_finish(w))

FairExecSpec == FairExecInit /\ [][ExecNext]_vars /\ ExecFairness

(* ---- properties ---- *)

\* The step is taken by thread t.
StepOf(t) == pc'[t] # pc[t]

\* C1: for each workload class, under every interleaving of
\* InitGlobal*, SetGlobal*Size and GetGlobal* calls of the threads, at most
\* one ThreadPool is ever constructed.
C1_AtMostOnePoolPerClass ==
    \A c \in Classes : Len(pools[c]) <= 1

\* C1 witness: a thread that found the pointer null outside the lock holds
\* the mutex after another thread has already constructed the pool.
C1_Witness ==
    \E t \in Threads :
        /\ pc[t] = "init_locked"
        /\ pool_ptr[cls[t]] # Null
        /\ Len(pools[cls[t]]) = 1

\* C2 (as claimed): every GetGlobal*ThreadPool call returns a non-null
\* pointer, whatever hardware_concurrency() reports (0 included), and a pool
\* that the call itself creates has hardware_concurrency() threads.
C2_GetReturnsPool ==
    [][\A t \in Threads :
          /\ (pc[t] = "get_return" /\ pc'[t] = "done") => ret'[t] # Null
          /\ (op[t] = "get" /\ StepOf(t) /\ pool_ptr[cls[t]] = Null
                /\ pool_ptr'[cls[t]] # Null)
             => size(pools'[cls[t]][pool_ptr'[cls[t]]]) = num_threads[t]
      ]_vars

\* C3: once a class's pointer is non-null it keeps its value (it neither
\* returns to null nor designates another pool); a GetGlobal*ThreadPool call
\* never returns a pool other than that one, and returns exactly that one
\* when the caller is ordered after its publication.
C3_InstanceNeverReplaced ==
    [][/\ \A c \in Classes :
              pool_ptr[c] # Null => pool_ptr'[c] = pool_ptr[c]
       /\ \A t \in Threads :
              (pc[t] = "get_return" /\ pc'[t] = "done") =>
                  /\ ret'[t] \in {Null, pool_ptr[cls[t]]}
                  /\ view[t][cls[t]] => ret'[t] = pool_ptr[cls[t]]
      ]_vars

\* C3 witness: a get returned the pool after the pool had been resized.
C3_Witness ==
    \E t \in Threads :
        /\ pc[t] = "done" /\ op[t] = "get"
        /\ ret[t] # Null /\ ret[t] = pool_ptr[cls[t]]
        /\ Pool(cls[t]).capacity # size(Pool(cls[t])) * kTaskQueueFactor

\* C4: a step of an InitGlobal*ThreadPool(n) call on a class whose pool
\* exists changes neither the pointer nor the pool (its thread count
\* included); on a class without pool the call that creates it leaves a
\* pool of n threads.  Hence init(a) then init(b) leaves a pool of size a.
C4_InitIsNoOpOnExistingPool ==
    [][\A t \in Threads :
          (op[t] = "init" /\ StepOf(t)) =>
              IF pool_ptr[cls[t]] # Null
              THEN /\ pool_ptr'[cls[t]] = pool_ptr[cls[t]]
                   /\ pools'[cls[t]] = pools[cls[t]]
              ELSE pool_ptr'[cls[t]] # Null =>
                   /\ pools'[cls[t]] = <<ThreadPool(num_threads[t])>>
                   /\ size(pools'[cls[t]][pool_ptr'[cls[t]]]) = num_threads[t]
      ]_vars

\* C4 witness: InitGlobal*ThreadPool(b) has returned on a class whose pool
\* was constructed with a # b threads and still has a threads.
C4_Witness ==
    \E t \in Threads :
        /\ pc[t] = "done" /\ op[t] = "init" /\ num_threads[t] > 0
        /\ pool_ptr[cls[t]] # Null
        /\ size(Pool(cls[t])) # num_threads[t]
        /\ Pool(cls[t]) = ThreadPool(size(Pool(cls[t])))

\* C5: SetGlobal*ThreadPoolSize(n), n > 0, called by a single thread of
\* control: when the pool exists the call goes to SetNumThreads and returns
\* with the same pool at n threads; when it does not, the call goes through
\* InitGlobal*ThreadPool(n) and returns with what InitGlobal*ThreadPool(n)
\* leaves on a class without pool: one pool, constructed with n threads.
C5_SetResizesOrCreates ==
    [][\A t \in Threads :
          LET c == cls[t]
              n == num_threads[t]
          IN  /\ (pc[t] = "set_entry" /\ StepOf(t)) =>
                    pc'[t] = IF pool_ptr[c] = Null THEN "init_entry"
                                                  ELSE "set_resize"
              /\ (pc[t] = "set_resize" /\ StepOf(t) /\ n > 0) =>
                    /\ pool_ptr[c] # Null /\ pool_ptr'[c] = pool_ptr[c]
                    /\ Len(pools'[c]) = Len(pools[c])
                    /\ size(pools'[c][pool_ptr'[c]]) = n
                    /\ pc'[t] = "done"
              /\ (op[t] \in {"init", "set"} /\ pc[t] = "init_unlock"
                    /\ StepOf(t)) =>
                    /\ pools'[c] = <<ThreadPool(n)>>
                    /\ pool_ptr'[c] = 1
                    /\ pc'[t] = "done"
              /\ (op[t] = "set" /\ n > 0 /\ StepOf(t) /\ pc'[t] = "done") =>
                    pc[t] \in {"set_resize", "init_unlock"}
      ]_vars

\* C5 witness: SetGlobal*ThreadPoolSize(n) has returned on a pool that was
\* constructed with another thread count and now has n threads.
C5_Witness ==
    \E t \in Threads :
        /\ pc[t] = "done" /\ op[t] = "set" /\ num_threads[t] > 0
        /\ pool_ptr[cls[t]] # Null
        /\ size(Pool(cls[t])) = num_threads[t]
        /\ Pool(cls[t]).capacity # num_threads[t] * kTaskQueueFactor

\* C6: no step of an InitGlobal*ThreadPool(0) or SetGlobal*ThreadPoolSize(0)
\* call changes a pointer or a pool: a class without pool stays without
\* pool, an existing pool keeps its thread count (SetNumThreads(0) changes
\* nothing, whatever the pool's state), and the call returns.
C6_ZeroIsNoOp ==
    [][\A t \in Threads :
          (op[t] \in {"init", "set"} /\ num_threads[t] = 0 /\ StepOf(t)) =>
              /\ pool_ptr' = pool_ptr
              /\ pools' = pools
              /\ pc[t] \in {"init_entry", "set_resize"} => pc'[t] = "done"
      ]_vars

\* C6 witness: SetGlobal*ThreadPoolSize(0) has returned on an existing pool
\* that had been resized before.
C6_Witness ==
    \E t \in Threads :
        /\ pc[t] = "done" /\ op[t] = "set" /\ num_threads[t] = 0
        /\ pool_ptr[cls[t]] # Null
        /\ Pool(cls[t]).capacity # size(Pool(cls[t])) * kTaskQueueFactor

\* C7 (as claimed): the queue capacity of every pool is a positive multiple
\* of the pool's current thread count.
C7_CapacityMultipleOfThreadCount ==
    \A c \in Classes : \A i \in DOMAIN pools[c] :
        /\ pools[c][i].capacity > 0
        /\ size(pools[c][i]) > 0
        /\ pools[c][i].capacity % size(pools[c][i]) = 0

\* C7 (amended): the queue capacity is kTaskQueueFactor times the thread
\* count the pool is constructed with and never changes afterwards; the
\* thread count stays positive.
C7_CapacityFixedAtConstruction ==
    [][\A c \in Classes : \A i \in DOMAIN pools'[c] :
          /\ size(pools'[c][i]) > 0
          /\ pools'[c][i].capacity > 0
          /\ IF i \in DOMAIN pools[c]
             THEN pools'[c][i].capacity = pools[c][i].capacity
             ELSE pools'[c][i].capacity =
                      size(pools'[c][i]) * kTaskQueueFactor
      ]_vars

\* C7 witness: a pool whose thread count was changed to one that does not
\* divide the capacity.
C7_Witness ==
    \E c \in Classes :
        /\ pool_ptr[c] # Null
        /\ Pool(c).capacity % size(Pool(c)) # 0

\* C8: size() is the most recently configured positive thread count: n
\* right after construction with n, m right after SetNumThreads(m) with
\* m > 0, unchanged by SetNumThreads(0) and by every other step, the steps
\* that call size() included.
C8_SizeIsLastConfiguredCount ==
    [][\A t \in Threads :
          StepOf(t) =>
              LET c == cls[t]
                  n == num_threads[t]
              IN  /\ \A d \in Classes \ {c} : pools'[d] = pools[d]
                  /\ IF pc[t] = "init_locked" /\ pool_ptr[c] = Null
                     THEN /\ n > 0
                          /\ pool_ptr'[c] # Null
                          /\ size(pools'[c][pool_ptr'[c]]) = n
                     ELSE IF pc[t] = "set_resize"
                     THEN size(pools'[c][pool_ptr'[c]]) =
                              IF n > 0 THEN n ELSE size(Pool(c))
                     ELSE pools'[c] = pools[c]
      ]_vars

\* C8 witness: SetNumThreads(m) has lowered the thread count below the one
\* the pool was constructed with.
C8_Witness ==
    \E t \in Threads :
        /\ pc[t] = "done" /\ op[t] = "set" /\ num_threads[t] > 0
        /\ pool_ptr[cls[t]] # Null
        /\ size(Pool(cls[t])) = num_threads[t]
        /\ num_threads[t] * kTaskQueueFactor < Pool(cls[t]).capacity

\* C9 (as claimed): when a guard is destroyed the budget becomes the budget
\* that was in effect immediately before the guard was constructed, whether
\* or not the build pool existed.
C9_RestoresEntryBudget ==
    [][(guards # <<>> /\ guards' = Tail(guards)) =>
          omp' = Head(guards).entry
      ]_vars

\* C9 (amended): when a guard is destroyed the budget becomes the budget that
\* was in effect immediately before the guard was constructed if there was
\* no build pool at construction, and the build pool's size at construction
\* if there was one; nested guards included.
C9_RestoresEntryBudgetOrPoolSize ==
    [][(guards # <<>> /\ guards' = Tail(guards)) =>
          omp' = IF Head(guards).pool = 0
                 THEN Head(guards).entry
                 ELSE Head(guards).pool
      ]_vars

\* C9 witness: two nested guards are live and about to be destroyed, the
\* inner one constructed with a build pool whose size differs from the
\* budget then in effect, the outer one without build pool.
C9_Witness ==
    /\ Len(guards) = 2
    /\ guards[1].pool # 0 /\ guards[1].pool # guards[1].entry
    /\ guards[2].pool = 0

\* C10: a guard records at construction the build pool's size if the build
\* pool exists, otherwise the runtime's setting; no later step (a resize or
\* creation of the build pool, a change of the budget, a nested guard)
\* changes what a live guard recorded; its destruction sets the budget to
\* the recorded value.
C10_ExitSetsRecordedPrior ==
    [][/\ Len(guards') = Len(guards) + 1 =>
              /\ guards'[1].omp_before =
                    IF build_pool_ = Null THEN omp_get_max_threads
                                          ELSE size(Pool("build"))
              /\ Tail(guards') = guards
       /\ Len(guards') = Len(guards) - 1 =>
              /\ omp' = Head(guards).omp_before
              /\ guards' = Tail(guards)
       /\ Len(guards') = Len(guards) => guards' = guards
      ]_vars

\* C10 witness: a guard is live whose recorded value differs both from the
\* current budget and from the build pool's current size, the build pool
\* having been created or resized during the scope.
C10_Witness ==
    /\ guards # <<>>
    /\ build_pool_ # Null
    /\ Head(guards).omp_before # omp
    /\ Head(guards).omp_before # size(Pool("build"))
    /\ Head(guards).pool # size(Pool("build"))

\* C11: constructing a guard with argument n sets the budget to n when
\* n > 0 and to the value the guard recorded when n <= 0, and leaves the
\* pool pointers and the pools as they are.
C11_CtorSetsBudget ==
    [][Len(guards') = Len(guards) + 1 =>
          /\ omp' = IF ctor_arg' > 0
                    THEN ctor_arg'
                    ELSE guards'[1].omp_before
          /\ pool_ptr' = pool_ptr
          /\ pools' = pools
      ]_vars

\* C11 witness: a guard constructed with n <= 0 while the build pool's size
\* differed from the budget then in effect; the budget is the pool's size.
C11_Witness ==
    /\ guards # <<>>
    /\ ctor_arg <= 0
    /\ Head(guards).pool # 0
    /\ Head(guards).pool # Head(guards).entry
    /\ omp = Head(guards).omp_before

\* WaitAllSuccess has returned or thrown.
WaitDone == wpc \in {"returned", "thrown"}

\* The handles of the batch that hold an exception, and those that hold a
\* status other than Status::success.
Raised == {i \in DOMAIN futures : futures[i] \in Exceptions}
Failed == {i \in DOMAIN futures : futures[i] \in NonSuccess}

\* The lowest index of a non-empty set of handles.
Lowest(S) == CHOOSE i \in S : \A j \in S : i <= j

\* C12 (as claimed): if any handle of the batch holds an exception,
\* WaitAllSuccess throws (the exception of such a handle), whatever the other
\* handles completed with and wherever they are in the batch.
C12_RaisedErrorPropagates ==
    (WaitDone /\ Raised # {}) =>
        /\ wpc = "thrown"
        /\ wresult \in {futures[i] : i \in Raised}

\* C13: with a Status payload and no handle holding an exception,
\* WaitAllSuccess returns the status of the lowest-index handle whose status
\* is not Status::success, whenever there is one.
C13_FirstNonSuccessReturned ==
    (WaitDone /\ payload = "Status" /\ Raised = {} /\ Failed # {}) =>
        /\ wpc = "returned"
        /\ wresult = futures[Lowest(Failed)]

\* C13 witness: WaitAllSuccess has returned on a batch whose first handle
\* succeeded and whose later handles report two different non-success
\* statuses.
C13_Witness ==
    /\ wpc = "returned" /\ payload = "Status" /\ Raised = {}
    /\ Len(futures) >= 3
    /\ futures[1] = Success
    /\ futures[2] \in NonSuccess /\ futures[3] \in NonSuccess
    /\ futures[2] # futures[3]

\* C14: when every handle of the batch completed successfully (with
\* Status::success, or with a folly::Unit value), WaitAllSuccess returns
\* Status::success; the empty batch included.
C14_AllSuccessReturnsSuccess ==
    (WaitDone /\ \A i \in DOMAIN futures : futures[i] \in {Success, UnitValue})
        => (wpc = "returned" /\ wresult = Success)

\* C14 witness: WaitAllSuccess has returned on the empty batch.
C14_Witness ==
    /\ wpc = "returned"
    /\ futures = <<>>

\* C15: WaitAllSuccess looks at results, returns or throws only when no
\* handle of the batch is pending, and what it looks at are the results of
\* all the handles.
C15_OutcomeOnlyAfterAllComplete ==
    wpc \in {"loop", "returned", "thrown"} =>
        /\ \A i \in DOMAIN futures : futures[i] # Pending
        /\ allFuts = futures

\* C15 witness: the call is still inside collectAll(...).get() although a
\* handle already holds an exception, because another handle is pending.
C15_Witness ==
    /\ wpc = "collectAll"
    /\ Raised # {}
    /\ \E i \in DOMAIN futures : futures[i] = Pending

(* ---- properties of the pool running tasks ---- *)

\* Where a task is.
InQueue(k) == \E i \in DOMAIN queue : queue[i] = k
RunningOn(k) == {w \in Workers : wstate[w] = "running" /\ wtask[w] = k}

\* C16: every task accepted by push is executed exactly once by exactly one
\* worker: at any moment it is either waiting once in the queue and never
\* started, or started once and running on one worker, or started once and
\* completed; whatever the interleaving of submitters, workers and
\* SetNumThreads calls.
C16_ExecutedExactlyOnce ==
    \A k \in Tasks :
        /\ runs[k] <= 1
        /\ Cardinality(RunningOn(k)) <= 1
        /\ Cardinality({i \in DOMAIN queue : queue[i] = k}) <= 1
        /\ k <= submitted =>
              \/ InQueue(k) /\ runs[k] = 0 /\ RunningOn(k) = {} /\ k \notin done
              \/ ~InQueue(k) /\ runs[k] = 1 /\ RunningOn(k) # {} /\ k \notin done
              \/ ~InQueue(k) /\ runs[k] = 1 /\ RunningOn(k) = {} /\ k \in done
        /\ k > submitted =>
              ~InQueue(k) /\ runs[k] = 0 /\ RunningOn(k) = {} /\ k \notin done

\* C16 witness: after two SetNumThreads calls that left the pool with fewer
\* threads than it runs, two workers run two tasks while others wait and
\* others have completed.
C16_Witness ==
    /\ resizes = MaxResizes
    /\ size(xpool) < Cardinality(Alive)
    /\ \E v, w \in Workers :
          v # w /\ wstate[v] = "running" /\ wstate[w] = "running"
    /\ queue # <<>>
    /\ done # {}

\* C17: under fair scheduling of the workers every accepted task eventually
\* completes, also when SetNumThreads lowers the thread count: a task that
\* has started keeps running until it completes, and a queued task stays in
\* the queue until a worker starts it.
C17_AcceptedEventuallyCompletes ==
    /\ \A k \in Tasks : (k <= submitted) ~> (k \in done)
    /\ [][\A k \in Tasks :
            /\ RunningOn(k) # {} => (RunningOn(k)' = RunningOn(k) \/ k \in done')
            /\ InQueue(k) => (InQueue(k)' \/ RunningOn(k)' # {})
         ]_vars

\* C17 witness: the thread count was lowered below the number of worker
\* threads while a task runs and another waits in the queue.
C17_Witness ==
    /\ size(xpool) < xinit
    /\ size(xpool) < Cardinality(Alive)
    /\ \E w \in Workers : wstate[w] = "running"
    /\ queue # <<>>

\* C18: the queue never holds more tasks than its capacity, which is the
\* thread count of construction times kTaskQueueFactor.  A push that finds
\* the queue full stays inside push, and can proceed exactly when the queue
\* has room; when push returns, its task has been added to the queue and has
\* not been started.
C18_BoundedQueueBlocksWhenFull ==
    /\ [](Len(queue) <= xinit * kTaskQueueFactor)
    /\ [](\A u \in Submitters :
            spc[u] = "add" =>
               (ENABLED push_add(u) <=> Len(queue) < xinit * kTaskQueueFactor))
    /\ [][\A u \in Submitters :
            /\ (spc[u] = "add" /\ Len(queue) = xinit * kTaskQueueFactor)
                  => (spc'[u] = "add" /\ submitted' = submitted)
            /\ (spc[u] = "add" /\ spc'[u] = "idle")
                  => /\ submitted' = submitted + 1
                     /\ queue' = Append(queue, submitted')
                     /\ runs'[submitted'] = 0
                     /\ submitted' \notin done'
         ]_vars

\* C18 witness: a submitter is inside push while the queue holds as many
\* tasks as the pool's construction thread count times kTaskQueueFactor.
C18_Witness ==
    \E u \in Submitters :
        /\ spc[u] = "add"
        /\ Len(queue) = xinit * kTaskQueueFactor

(* ---- properties of concurrent registry calls ---- *)

\* C19 (as claimed): every SetGlobal*ThreadPoolSize(n) call with n > 0 that
\* completes took effect during the call: when it found a pool it leaves
\* that pool's thread count at n, and when it found none it does not return
\* from the InitGlobal*ThreadPool it delegates to without having created the
\* class's pool with n threads; at the least, the pool another caller
\* created in between has n threads when the call gives up.
C19_SetTookEffect ==
    [][\A t \in Threads :
          (op[t] = "set" /\ num_threads[t] > 0) =>
             /\ (pc[t] = "init_entry" /\ pc'[t] = "done") =>
                   /\ pool_ptr[cls[t]] # Null
                   /\ size(pools[cls[t]][pool_ptr[cls[t]]]) = num_threads[t]
             /\ (pc[t] = "init_locked" /\ pc'[t] = "init_unlock") =>
                   /\ pool_ptr'[cls[t]] # Null
                   /\ size(pools'[cls[t]][pool_ptr'[cls[t]]]) = num_threads[t]
             /\ (pc[t] = "set_resize" /\ pc'[t] = "done") =>
                   size(pools'[cls[t]][pool_ptr[cls[t]]]) = num_threads[t]
      ]_vars

\* C20: registry calls never deadlock.  Under fair scheduling every
\* InitGlobal*ThreadPool, SetGlobal*ThreadPoolSize and GetGlobal*ThreadPool
\* call returns and every mutex taken is released; a class's mutex is owned
\* only by a thread between the lock and the end of the create decision of
\* InitGlobal*ThreadPool for that class; and a call waits only at that lock
\* and only while the mutex of its own class is owned, whatever the state of
\* the other class's mutex.
C20_CallsReturnLockReleased ==
    /\ \A t \in Threads : (pc[t] # "idle") ~> (pc[t] = "done")
    /\ \A c \in Classes : (mutex[c] # NoThread) ~> (mutex[c] = NoThread)
    /\ [](\A c \in Classes, t \in Threads :
            mutex[c] = t <=>
               (pc[t] \in {"init_locked", "init_unlock"} /\ cls[t] = c))
    /\ [](\A t \in Threads :
            /\ pc[t] = "init_lock" =>
                  (ENABLED ThreadStep(t) <=> mutex[cls[t]] = NoThread)
            /\ pc[t] \notin {"idle", "done", "init_lock"} =>
                  ENABLED ThreadStep(t))

\* C20 witness: one thread owns the build mutex, inside the create decision,
\* while the other thread waits for it; the search mutex is free.
C20_Witness ==
    /\ mutex["build"] = 1
    /\ pc[1] = "init_locked"
    /\ pc[2] = "init_lock" /\ cls[2] = "build"
    /\ mutex["search"] = NoThread

====
